---- MODULE Spec2Model ----
(***************************************************************************)
(* The DNA fingerprint engine of backend/dna_utils.py: generate_dna,       *)
(* decode_dna, validate_dna, remix_dna, mutate_dna, generate_persona_dna   *)
(* and analyze_dna_compatibility, as operators over Python values, and a   *)
(* caller that applies them to inputs drawn from bounded sets.             *)
(*                                                                         *)
(* A Python str is a sequence of one-character strings; a Python value is  *)
(* a record [t |-> type name, s |-> characters].  Floats are held in       *)
(* decimal fixed point (the unit is named at each use).                    *)
(***************************************************************************)
EXTENDS Integers, Sequences, FiniteSets, TLC

VARIABLES dna_a, dna_b, op, args, res, budget, now, gen_log,
          users, generations, db_lock, reqs

vars ==
  <<dna_a, dna_b, op, args, res, budget, now, gen_log,
    users, generations, db_lock, reqs>>

\* the state of the server of backend/trip_server.py: the rows of its two
\* tables, the holder of the write lock of the database file, and the /trip
\* requests being served
srv == <<users, generations, db_lock, reqs>>

----------------------------------------------------------------------------
(* Characters and Python values                                            *)

\* the characters of code 32..95 and of code 97..126
AsciiLow ==
  <<
    " ", "!", "\"", "#", "$", "%", "&", "'", "(", ")", "*", "+", ",", "-", ".", "/",
    "0", "1", "2", "3", "4", "5", "6", "7", "8", "9", ":", ";", "<", "=", ">", "?",
    "@", "A", "B", "C", "D", "E", "F", "G", "H", "I", "J", "K", "L", "M", "N", "O",
    "P", "Q", "R", "S", "T", "U", "V", "W", "X", "Y", "Z", "[", "\\", "]", "^", "_"
  >>

AsciiHigh ==
  <<
    "a", "b", "c", "d", "e", "f", "g", "h", "i", "j", "k", "l", "m", "n", "o",
    "p", "q", "r", "s", "t", "u", "v", "w", "x", "y", "z", "{", "|", "}", "~"
  >>

OrdTable ==
  [c \in {AsciiLow[i] : i \in 1..Len(AsciiLow)} \cup
         {AsciiHigh[i] : i \in 1..Len(AsciiHigh)} |->
      IF \E i \in 1..Len(AsciiLow) : AsciiLow[i] = c
      THEN 31 + (CHOOSE i \in 1..Len(AsciiLow) : AsciiLow[i] = c)
      ELSE 96 + (CHOOSE i \in 1..Len(AsciiHigh) : AsciiHigh[i] = c)]

\* ord(c): the code point of a character (printable ASCII and the tab)
Ord(c) == IF c = "\t" THEN 9 ELSE OrdTable[c]

Str(s) == [t |-> "str", s |-> s]

\* the int 123, a value that is no str
Int123 == [t |-> "int", s |-> <<"1", "2", "3">>]

Rep(c, n) == [i \in 1..n |-> c]

Ok(v) == [kind |-> "ok", val |-> v]

Raise(e) == [kind |-> "raise", val |-> e]

NoResult == [kind |-> "none", val |-> "none"]

----------------------------------------------------------------------------
(* int(dna, 16): CPython PyLong_FromString, as far as it decides between *)
(* a value and ValueError                                                  *)

DnaLen == 64

HexBase == 16

IsSpace(c) == c \in {" ", "\t"}

\* _PyLong_DigitValue: 0-9, then a-z and A-Z as 10..35, anything else 37
DigitValue(c) ==
  LET o == Ord(c)
  IN  IF o >= 48 /\ o <= 57 THEN o - 48
      ELSE IF o >= 97 /\ o <= 122 THEN o - 87
      ELSE IF o >= 65 /\ o <= 90 THEN o - 55
      ELSE 37

\* the least element of a set of indices, dflt when it is empty
Least(S, dflt) == IF S = {} THEN dflt ELSE CHOOSE j \in S : \A k \in S : j <= k

\* the index the scan over whitespace from i on stops at
SkipSpace(s, i) == Least({j \in i..Len(s) : ~IsSpace(s[j])}, Len(s) + 1)

\* the scan over digits and underscores from i on (s[i] is no underscore):
\* the index it stops at, or -1 when two underscores meet in the run or an
\* underscore ends it
DigitRun(s, i, base) ==
  LET e == Least({j \in i..Len(s) : ~(s[j] = "_" \/ DigitValue(s[j]) < base)},
                 Len(s) + 1)
  IN  IF \E j \in i..(e - 1) : s[j] = "_" /\ (j + 1 = e \/ s[j + 1] = "_")
      THEN -1
      ELSE e

\* TRUE when int(s, base) returns, FALSE when it raises ValueError
IntParses(s, base) ==
  LET i1 == SkipSpace(s, 1)
      i2 == IF i1 <= Len(s) /\ s[i1] \in {"+", "-"} THEN i1 + 1 ELSE i1
      prefixed == /\ base = HexBase
                  /\ i2 + 1 <= Len(s)
                  /\ s[i2] = "0"
                  /\ s[i2 + 1] \in {"x", "X"}
      i3 == IF prefixed
            THEN IF i2 + 2 <= Len(s) /\ s[i2 + 2] = "_" THEN i2 + 3 ELSE i2 + 2
            ELSE i2
  IN  IF i3 <= Len(s) /\ s[i3] = "_" THEN FALSE
      ELSE LET e == DigitRun(s, i3, base)
           IN  e # -1 /\ e # i3 /\ SkipSpace(s, e) = Len(s) + 1

validate_dna(dna) ==
  IF dna.t # "str" THEN FALSE
  ELSE IF Len(dna.s) # DnaLen THEN FALSE
  ELSE IntParses(dna.s, HexBase)

----------------------------------------------------------------------------
(* Floats: a float is held as the integer count of its millionths          *)

Micro == 1000000

Pow10(n) == IF n = 0 THEN 1 ELSE IF n = 1 THEN 10 ELSE 100

\* round that cuts the digits off
RoundDown(x, ndigits) ==
  LET unit == Micro \div Pow10(ndigits)
  IN  (x \div unit) * unit

\* round(x, ndigits) for x >= 0: to the nearest multiple of 10^-ndigits, a
\* tie going to the even one
Round(x, ndigits) ==
  LET unit == Micro \div Pow10(ndigits)
      q == x \div unit
      r == x % unit
  IN  IF 2 * r > unit \/ (2 * r = unit /\ q % 2 = 1)
      THEN (q + 1) * unit
      ELSE q * unit

----------------------------------------------------------------------------
(* remix_dna, mutate_dna                                                   *)

DefaultCrossover == 32

\* s[:c] and s[c:] for 0 <= c
SliceTo(s, c) == SubSeq(s, 1, IF c < Len(s) THEN c ELSE Len(s))

SliceFrom(s, c) == SubSeq(s, c + 1, Len(s))

\* remix_dna with the upper bound of the crossover point off by one
remix_dna_off_by_one(a, b, crossover_point) ==
  IF ~validate_dna(a) \/ ~validate_dna(b)
  THEN Raise("ValueError: Invalid DNA format")
  ELSE LET c == IF crossover_point < 1 \/ crossover_point > DnaLen
                THEN DefaultCrossover
                ELSE crossover_point
       IN  Ok(Str(SliceTo(a.s, c) \o SliceFrom(b.s, c)))

\* remix_dna that rejects only when both inputs are invalid
remix_dna_both_invalid(a, b, crossover_point) ==
  IF ~validate_dna(a) /\ ~validate_dna(b)
  THEN Raise("ValueError: Invalid DNA format")
  ELSE LET c == IF crossover_point < 1 \/ crossover_point >= DnaLen
                THEN DefaultCrossover
                ELSE crossover_point
       IN  Ok(Str(SliceTo(a.s, c) \o SliceFrom(b.s, c)))

remix_dna(a, b, crossover_point) ==
  IF ~validate_dna(a) \/ ~validate_dna(b)
  THEN Raise("ValueError: Invalid DNA format")
  ELSE LET c == IF crossover_point < 1 \/ crossover_point >= DnaLen
                THEN DefaultCrossover
                ELSE crossover_point
       IN  Ok(Str(SliceTo(a.s, c) \o SliceFrom(b.s, c)))

hex_chars ==
  <<"0", "1", "2", "3", "4", "5", "6", "7", "8", "9", "a", "b", "c", "d", "e", "f">>

\* mutate_dna that mutates when random.random() <= mutation_rate
mutate_dna_le(dna, mutation_rate, draws, picks) ==
  IF ~validate_dna(dna)
  THEN Raise("ValueError: Invalid DNA format")
  ELSE Ok(Str([i \in 1..Len(dna.s) |->
                 IF draws[i] <= mutation_rate
                 THEN hex_chars[picks[i]]
                 ELSE dna.s[i]]))

\* mutation_rate is a float; draws[i] is what random.random() returns for
\* position i (a float of [0, 1)) and picks[i] the index random.choice
\* takes in hex_chars when it is called for position i
mutate_dna(dna, mutation_rate, draws, picks) ==
  IF ~validate_dna(dna)
  THEN Raise("ValueError: Invalid DNA format")
  ELSE Ok(Str([i \in 1..Len(dna.s) |->
                 IF draws[i] < mutation_rate
                 THEN hex_chars[picks[i]]
                 ELSE dna.s[i]]))

----------------------------------------------------------------------------
(* decode_dna                                                              *)

\* sum(ord(c) for c in s[lo..hi])
RECURSIVE SumOrd(_, _, _)
SumOrd(s, lo, hi) ==
  IF lo > hi THEN 0
  ELSE IF lo = hi THEN Ord(s[lo])
  ELSE LET mid == (lo + hi) \div 2
       IN  SumOrd(s, lo, mid) + SumOrd(s, mid + 1, hi)

DefaultModel == "dolphin-phi:latest"

model_map(c) ==
  CASE c = "0" -> "dolphin-phi:latest"
    [] c = "1" -> "llama2:latest"
    [] c = "2" -> "mistral:latest"
    [] c = "3" -> "gpt-4"
    [] OTHER -> DefaultModel

\* the estimate without its offset: k * 0.1
EstimateNoOffset(k, err) == k * (Micro \div 10) + err

\* 0.1 + k * 0.1 in binary floating point: the decimal value, off by the
\* rounding error err of the literal, the product and the sum
Estimate(k, err) == (Micro \div 10) + k * (Micro \div 10) + err

\* err_t and err_p are the rounding errors of the two float expressions
decode_dna(dna, err_t, err_p) ==
  IF dna.t # "str" THEN Raise("TypeError")
  ELSE LET char_sum == SumOrd(dna.s, 1, Len(dna.s))
           temp == Estimate(char_sum % 20, err_t)
           top_p == Estimate(char_sum % 9, err_p)
       IN  IF Len(dna.s) = 0 THEN Raise("IndexError")
           ELSE Ok([temperature |-> Round(temp, 1),
                    top_p |-> Round(top_p, 1),
                    model |-> model_map(dna.s[1]),
                    dna |-> dna,
                    note |-> "Parameters estimated from DNA pattern"])

----------------------------------------------------------------------------
(* analyze_dna_compatibility                                               *)

Vowels == {"a", "e", "i", "o", "u"}

Consonants ==
  {"b", "c", "d", "f", "g", "h", "j", "k", "l", "m", "n", "p", "q", "r", "s",
   "t", "v", "w", "x", "y", "z"}

Count(s, S) == Cardinality({i \in 1..Len(s) : s[i] \in S})

IsDigit(c) == Ord(c) >= 48 /\ Ord(c) <= 57

Patterns(s) ==
  [vowels |-> Count(s, Vowels),
   consonants |-> Count(s, Consonants),
   numbers |-> Cardinality({i \in 1..Len(s) : IsDigit(s[i])})]

\* sum(c1 != c2 for c1, c2 in zip(dna_a, dna_b))
Hamming(s, u) ==
  Cardinality({i \in 1..(IF Len(s) < Len(u) THEN Len(s) ELSE Len(u)) : s[i] # u[i]})

\* (64 - differences) / 64 * 100: both operations are exact in binary
\* floating point for 0 <= differences <= 64
Similarity(differences) == (((DnaLen - differences) * Micro) \div DnaLen) * 100

Label(similarity) ==
  IF similarity > 70 * Micro THEN "High"
  ELSE IF similarity > 40 * Micro THEN "Medium"
  ELSE "Low"

\* the recommendation with >= for >
RecommendedGe(similarity) == IF similarity >= 50 * Micro THEN 32 ELSE 16

Recommended(similarity) == IF similarity > 50 * Micro THEN 32 ELSE 16

ErrorResult == [error |-> "Invalid DNA format"]

\* analyze_dna_compatibility that validates its first input only
analyze_first_only(a, b) ==
  IF ~validate_dna(a)
  THEN Ok(ErrorResult)
  ELSE LET differences == Hamming(a.s, b.s)
           similarity == Similarity(differences)
       IN  Ok([similarity_percentage |-> Round(similarity, 2),
               differences |-> differences,
               recommended_crossover |-> Recommended(similarity),
               patterns_a |-> Patterns(a.s),
               patterns_b |-> Patterns(b.s),
               compatibility |-> Label(similarity)])

analyze_dna_compatibility(a, b) ==
  IF ~validate_dna(a) \/ ~validate_dna(b)
  THEN Ok(ErrorResult)
  ELSE LET differences == Hamming(a.s, b.s)
           similarity == Similarity(differences)
       IN  Ok([similarity_percentage |-> Round(similarity, 2),
               differences |-> differences,
               recommended_crossover |-> Recommended(similarity),
               patterns_a |-> Patterns(a.s),
               patterns_b |-> Patterns(b.s),
               compatibility |-> Label(similarity)])

----------------------------------------------------------------------------
(* generate_dna, generate_persona_dna                                      *)
(*                                                                         *)
(* A JSON value is [t |-> "str", s |-> characters], [t |-> "float",        *)
(* x |-> millionths] or [t |-> "dict", items |-> <<key, value>> pairs in   *)
(* insertion order], a key being a sequence of characters.                 *)

JStr(s) == [t |-> "str", s |-> s]

JFloat(x) == [t |-> "float", x |-> x]

JDict(items) == [t |-> "dict", items |-> items]

\* s < u for two strings, by code point
RECURSIVE StrLess(_, _)
StrLess(s, u) ==
  IF Len(u) = 0 THEN FALSE
  ELSE IF Len(s) = 0 THEN TRUE
  ELSE IF Ord(Head(s)) # Ord(Head(u)) THEN Ord(Head(s)) < Ord(Head(u))
  ELSE StrLess(Tail(s), Tail(u))

\* the items of a dict by ascending key (sort_keys=True); keys are distinct
RECURSIVE SortItems(_)
SortItems(items) ==
  IF Len(items) <= 1 THEN items
  ELSE LET m == CHOOSE i \in 1..Len(items) :
                  \A j \in 1..Len(items) : j = i \/ StrLess(items[i][1], items[j][1])
       IN  <<items[m]>> \o
           SortItems(SubSeq(items, 1, m - 1) \o SubSeq(items, m + 1, Len(items)))

Digit(n) == hex_chars[n + 1]

\* repr of a float 0 <= x < 10 that is a whole number of hundredths
FloatRepr(x) ==
  LET whole == x \div Micro
      hundredths == (x % Micro) \div (Micro \div 100)
  IN  <<Digit(whole), ".", Digit(hundredths \div 10)>> \o
      (IF hundredths % 10 = 0 THEN <<>> ELSE <<Digit(hundredths % 10)>>)

\* json.dumps(v, sort_keys=True)
RECURSIVE Dumps(_)
RECURSIVE DumpItems(_, _)
Dumps(v) ==
  CASE v.t = "str" -> <<"\"">> \o v.s \o <<"\"">>
    [] v.t = "float" -> FloatRepr(v.x)
    [] v.t = "dict" -> <<"{">> \o DumpItems(SortItems(v.items), 1) \o <<"}">>

DumpItems(items, i) ==
  IF i > Len(items) THEN <<>>
  ELSE (IF i > 1 THEN <<",", " ">> ELSE <<>>) \o
       <<"\"">> \o items[i][1] \o <<"\"", ":", " ">> \o Dumps(items[i][2]) \o
       DumpItems(items, i + 1)

DigestBytes == 32

\* hashlib.sha256(msg).digest(): SHA-256 itself is not computed; it is
\* stood for by a fixed function of the message to DigestBytes bytes
RECURSIVE Mix(_, _, _)
Mix(msg, lo, hi) ==
  IF lo > hi THEN 0
  ELSE IF lo = hi THEN Ord(msg[lo]) * (((lo * lo * 31) + (7 * lo) + 1) % 1009)
  ELSE LET mid == (lo + hi) \div 2
       IN  (Mix(msg, lo, mid) + Mix(msg, mid + 1, hi)) % 1000003

Sha256(msg) ==
  LET h == Mix(msg, 1, Len(msg))
  IN  [i \in 1..DigestBytes |-> ((h + i) * ((h % 251) + 7 * i + 1)) % 256]

\* hexdigest(): two lowercase hex digits for each byte
HexDigest(bytes) ==
  [i \in 1..(2 * Len(bytes)) |->
     IF i % 2 = 1
     THEN hex_chars[(bytes[(i + 1) \div 2] \div 16) + 1]
     ELSE hex_chars[(bytes[i \div 2] % 16) + 1]]

KEY_PROMPT == <<"p", "r", "o", "m", "p", "t">>

KEY_TEMPERATURE == <<"t", "e", "m", "p", "e", "r", "a", "t", "u", "r", "e">>

KEY_TOP_P == <<"t", "o", "p", "_", "p">>

KEY_MODEL == <<"m", "o", "d", "e", "l">>

KEY_VERSION == <<"v", "e", "r", "s", "i", "o", "n">>

KEY_PERSONA == <<"p", "e", "r", "s", "o", "n", "a">>

KEY_TRAITS == <<"t", "r", "a", "i", "t", "s">>

KEY_TYPE == <<"t", "y", "p", "e">>

PERSONA_DNA == <<"p", "e", "r", "s", "o", "n", "a", "_", "d", "n", "a">>

Version == <<"1", ".", "0">>

\* generate_dna with the time of the call hashed in
generate_dna_timed(prompt, temperature, top_p, model) ==
  LET data == JDict(<< <<KEY_PROMPT, JStr(prompt)>>,
                       <<KEY_TEMPERATURE, JFloat(temperature)>>,
                       <<KEY_TOP_P, JFloat(top_p)>>,
                       <<KEY_MODEL, JStr(model)>>,
                       <<KEY_VERSION, JStr(Version)>>,
                       <<<<"t", "i", "m", "e">>, JFloat(now * Micro)>> >>)
      json_str == Dumps(data)
      hash_hex == HexDigest(Sha256(json_str))
  IN  Str(SliceTo(hash_hex, DnaLen))

\* generate_dna that keeps the first 32 characters of the digest
generate_dna_short(prompt, temperature, top_p, model) ==
  LET data == JDict(<< <<KEY_PROMPT, JStr(prompt)>>,
                       <<KEY_TEMPERATURE, JFloat(temperature)>>,
                       <<KEY_TOP_P, JFloat(top_p)>>,
                       <<KEY_MODEL, JStr(model)>>,
                       <<KEY_VERSION, JStr(Version)>> >>)
      json_str == Dumps(data)
      hash_hex == HexDigest(Sha256(json_str))
  IN  Str(SliceTo(hash_hex, DnaLen \div 2))

generate_dna(prompt, temperature, top_p, model) ==
  LET data == JDict(<< <<KEY_PROMPT, JStr(prompt)>>,
                       <<KEY_TEMPERATURE, JFloat(temperature)>>,
                       <<KEY_TOP_P, JFloat(top_p)>>,
                       <<KEY_MODEL, JStr(model)>>,
                       <<KEY_VERSION, JStr(Version)>> >>)
      json_str == Dumps(data)
      hash_hex == HexDigest(Sha256(json_str))
  IN  Str(SliceTo(hash_hex, DnaLen))

\* traits: <<name, value>> pairs in the insertion order of the dict
generate_persona_dna(persona_name, traits) ==
  LET data == JDict(<< <<KEY_PERSONA, JStr(persona_name)>>,
                       <<KEY_TRAITS, JDict(traits)>>,
                       <<KEY_TYPE, JStr(PERSONA_DNA)>>,
                       <<KEY_VERSION, JStr(Version)>> >>)
      json_str == Dumps(data)
  IN  Str(SliceTo(HexDigest(Sha256(json_str)), DnaLen))

----------------------------------------------------------------------------
(* Inputs                                                                  *)

\* a string of DnaLen characters that starts with the characters of pre,
\* ends with those of post and is filled with c in between
Padded(pre, c, post) ==
  pre \o Rep(c, DnaLen - Len(pre) - Len(post)) \o post

\* n times c, then d up to DnaLen characters
Split(c, n, d) == Rep(c, n) \o Rep(d, DnaLen - n)

\* what a caller may hand to validate_dna: well-formed identifiers, strings
\* of a wrong length, strings of 64 characters with one that is no hex digit
\* at an end or inside, and a value that is no string
EdgeInputs ==
  { Str(Rep("a", DnaLen)), Str(Rep("1", DnaLen)), Str(Rep("2", DnaLen)),
    Str(Rep("g", DnaLen)), Str(Rep("A", DnaLen)),
    Str(Rep("a", DnaLen - 1)), Str(Rep("a", DnaLen + 1)), Str(<<>>),
    Str(<<"n", "o", "t", "-", "h", "e", "x">>),
    Int123,
    Str(Padded(<<"+">>, "a", <<>>)), Str(Padded(<<"-">>, "a", <<>>)),
    Str(Padded(<<" ">>, "a", <<>>)), Str(Padded(<<>>, "a", <<" ">>)),
    Str(Padded(<<"\t">>, "a", <<>>)),
    Str(Padded(<<"0", "x">>, "a", <<>>)), Str(Padded(<<"0", "X">>, "a", <<>>)),
    Str(Padded(<<"0", "x", "_">>, "a", <<>>)),
    Str(Padded(<<"a", "_">>, "a", <<>>)), Str(Padded(<<"a", "_", "_">>, "a", <<>>)),
    Str(Padded(<<"_">>, "a", <<>>)), Str(Padded(<<>>, "a", <<"_">>)),
    Str(Padded(<<"+", " ">>, "a", <<>>)), Str(Padded(<<" ", "+">>, "a", <<>>)),
    Str(Padded(<<"a", "x">>, "a", <<>>)), Str(Padded(<<"a", " ">>, "a", <<>>)),
    Str(Padded(<<"0", "x", "g">>, "a", <<>>)), Str(Rep(" ", DnaLen)),
    Str(Padded(<<>>, " ", <<"0", "x">>)),
    Str(Padded(<<"3">>, "f", <<"z">>)) }

\* all n of Split for two pairs of hex digits: every Hamming distance to
\* Rep("a", DnaLen), every first character of model_map but two, and
\* DnaLen + 1 consecutive character sums
Splits ==
  {Str(Split("a", n, "b")) : n \in 0..DnaLen} \cup
  {Str(Split("0", n, "1")) : n \in 0..DnaLen}

Partners == {Str(Rep("a", DnaLen)), Str(Rep("1", DnaLen))}

InputPairs ==
  (Partners \X (EdgeInputs \cup Splits)) \cup
  ((EdgeInputs \cup Splits) \X {Str(Rep("a", DnaLen))})

CrossoverPoints == {-5, 0, 1, 16, 32, 63, 64, 100}

\* mutation rates 0.0, 0.1, 0.5 and 1.0
Rates == {0, Micro \div 10, Micro \div 2, Micro}

\* what random.random() returns along the positions: always 0.0, always
\* just under 1, low in the first half and high in the second, or spread
Draws ==
  { [i \in 1..DnaLen |-> 0],
    [i \in 1..DnaLen |-> Micro - 1],
    [i \in 1..DnaLen |-> IF i <= 32 THEN Micro \div 20 ELSE (Micro \div 10) * 6],
    [i \in 1..DnaLen |-> ((i * 37) % 100) * (Micro \div 100)] }

\* what random.choice(hex_chars) takes along the positions
Picks ==
  { [i \in 1..DnaLen |-> 16],
    [i \in 1..DnaLen |-> (i % 16) + 1] }

\* the rounding error of a float expression, in millionths
FloatErr == 1

Prompts == {<<"h", "i">>, <<"h", "o">>}

Temperatures == {(Micro \div 10) * 7, (Micro \div 10) * 13}

TopPs == {(Micro \div 10) * 9, (Micro \div 100) * 95}

Models ==
  {<<"g", "p", "t", "-", "4">>, <<"l", "l", "a", "m", "a", "2">>}

\* one parameter tuple, and the four that differ from it in one parameter
GenArgs ==
  LET p == <<"h", "i">>
      q == (Micro \div 10) * 7
      r == (Micro \div 10) * 9
      m == <<"g", "p", "t", "-", "4">>
  IN  {x \in Prompts \X Temperatures \X TopPs \X Models :
         Cardinality({i \in 1..4 : x[i] # <<p, q, r, m>>[i]}) <= 1}

PersonaNames == {<<"b", "o", "b">>, <<"a", "l">>}

TraitSets ==
  { <<>>,
    << <<<<"m", "o", "o", "d">>, JStr(<<"s", "h", "y">>)>>,
       <<<<"a", "g", "e">>, JFloat(Micro * 7)>> >>,
    << <<<<"a", "g", "e">>, JFloat(Micro * 7)>>,
       <<<<"m", "o", "o", "d">>, JStr(<<"s", "h", "y">>)>> >>,
    << <<<<"z">>, JDict(<< <<<<"b">>, JStr(<<"x">>)>>, <<<<"a">>, JStr(<<"y">>)>> >>)>>,
       <<<<"k">>, JStr(<<>>)>> >> }

MaxCalls == 3

MaxClock == 1

----------------------------------------------------------------------------
(* backend/trip_server.py: its own generate_dna and decode_dna, and the    *)
(* users and generations tables                                            *)

PromptCut == 100

\* datetime.now().isoformat(): a text that differs from one time to the next
IsoFormat(t) == <<"T", Digit(t)>>

\* generate_dna of trip_server.py; datetime.now() is the clock `now`
trip_generate_dna(prompt, temp, top_p, model) ==
  LET data_string == SliceTo(prompt, PromptCut) \o <<"-">> \o FloatRepr(temp) \o
                     <<"-">> \o FloatRepr(top_p) \o <<"-">> \o model \o
                     <<"-">> \o IsoFormat(now)
  IN  Str(HexDigest(Sha256(data_string)))

\* decode_dna of trip_server.py, a placeholder
trip_decode_dna(dna) ==
  [prompt |-> "Decoded from DNA",
   temp |-> (Micro \div 10) * 13,
   top_p |-> (Micro \div 10) * 9,
   model |-> "dolphin-phi:latest",
   dna |-> dna]

\* a users row: id is the AUTOINCREMENT key
UserRow(id, user_id) ==
  [id |-> id, user_id |-> user_id,
   daily_usage |-> 0, monthly_usage |-> 0, total_usage |-> 0]

UserRows(rows, user_id) == {row \in rows : row.user_id = user_id}

\* a users table without the UNIQUE constraint on user_id
NoConstraint(rows, user_id) == FALSE

\* user_id TEXT UNIQUE NOT NULL: an INSERT of a user_id that has a row fails
UniqueViolation(rows, user_id) == UserRows(rows, user_id) # {}

\* UPDATE users SET daily_usage = daily_usage + 1, ... WHERE user_id = ?
UpdateUsage(rows, user_id) ==
  { IF row.user_id = user_id
    THEN [row EXCEPT !.daily_usage = @ + 1,
                     !.monthly_usage = @ + 1,
                     !.total_usage = @ + 1]
    ELSE row : row \in rows }

MaxReqs == 2

ReqIds == 1..MaxReqs

UserIds == {"alice", "bob"}

\* the prompt, temp, top_p and model of a /trip request
TripArgs ==
  {x \in GenArgs : x[2] = (Micro \div 10) * 7 /\ x[3] = (Micro \div 10) * 9
                   /\ x[4] = <<"g", "p", "t", "-", "4">>}

\* what the model runtime does with a request: it answers, answers with a
\* status other than 200, cannot be reached, or fails otherwise
OllamaOutcomes == {"200", "status", "ConnectionError", "Exception"}

IdleReq ==
  [pc |-> "idle", user_id |-> "", x |-> <<>>, dna |-> Str(<<>>), err |-> ""]

SrvInit ==
  /\ users = {}
  /\ generations = {}
  /\ db_lock = 0
  /\ reqs = [r \in ReqIds |-> IdleReq]

----------------------------------------------------------------------------
(* The caller: it holds two values, makes up to `budget` calls of the      *)
(* engine and keeps the outcome of the last one; `now` is the wall clock   *)
(* and gen_log what generate_dna has returned so far: the arguments x, the  *)
(* identifier and the calls that were left when it was made                *)

Init ==
  /\ \E pair \in InputPairs : dna_a = pair[1] /\ dna_b = pair[2]
  /\ op = "none"
  /\ args = <<>>
  /\ res = NoResult
  /\ budget = 1
  /\ now = 0
  /\ gen_log = {}
  /\ SrvInit

InitGen ==
  /\ dna_a = Str(Rep("a", DnaLen))
  /\ dna_b = Str(Split("0", 7, "1"))
  /\ op = "none"
  /\ args = <<>>
  /\ res = NoResult
  /\ budget = MaxCalls
  /\ now = 0
  /\ gen_log = {}
  /\ SrvInit

Call(name, a, r) ==
  /\ budget > 0
  /\ budget' = budget - 1
  /\ op' = name
  /\ args' = a
  /\ res' = r

Validate ==
  /\ Call("validate", [dna |-> dna_a], Ok(validate_dna(dna_a)))
  /\ UNCHANGED <<dna_a, dna_b, now, gen_log, srv>>

Remix ==
  \E c \in CrossoverPoints :
    /\ Call("remix", [crossover_point |-> c], remix_dna(dna_a, dna_b, c))
    /\ UNCHANGED <<dna_a, dna_b, now, gen_log, srv>>

Mutate ==
  \E rate \in Rates, draws \in Draws, picks \in Picks :
    /\ Call("mutate", [mutation_rate |-> rate, draws |-> draws, picks |-> picks],
            mutate_dna(dna_a, rate, draws, picks))
    /\ UNCHANGED <<dna_a, dna_b, now, gen_log, srv>>

Decode ==
  \E et \in -FloatErr..FloatErr, ep \in -FloatErr..FloatErr :
    /\ Call("decode", [err_t |-> et, err_p |-> ep], decode_dna(dna_a, et, ep))
    /\ UNCHANGED <<dna_a, dna_b, now, gen_log, srv>>

Compatibility ==
  /\ Call("compatibility", <<>>, analyze_dna_compatibility(dna_a, dna_b))
  /\ UNCHANGED <<dna_a, dna_b, now, gen_log, srv>>

Generate ==
  \E x \in GenArgs :
    LET dna == generate_dna(x[1], x[2], x[3], x[4])
    IN  /\ Call("generate", x, Ok(dna))
        /\ gen_log' = gen_log \cup {[x |-> x, dna |-> dna, left |-> budget]}
        /\ UNCHANGED <<dna_a, dna_b, now, srv>>

GeneratePersona ==
  \E name \in PersonaNames, traits \in TraitSets :
    /\ Call("generate_persona", <<name, traits>>,
            Ok(generate_persona_dna(name, traits)))
    /\ UNCHANGED <<dna_a, dna_b, now, gen_log, srv>>

\* /recreate of trip_server.py: data.get("dna", "") is the value the caller
\* holds, and the decode_dna it calls is the placeholder of trip_server.py
Recreate ==
  /\ Call("recreate", [dna |-> dna_a], Ok(trip_decode_dna(dna_a)))
  /\ UNCHANGED <<dna_a, dna_b, now, gen_log, srv>>

\* time passes
Tick ==
  /\ now < MaxClock
  /\ now' = now + 1
  /\ UNCHANGED <<dna_a, dna_b, op, args, res, budget, gen_log, srv>>

Next ==
  \/ Validate
  \/ Remix
  \/ Mutate
  \/ Decode
  \/ Compatibility
  \/ Generate
  \/ GeneratePersona
  \/ Recreate
  \/ Tick

Spec == Init /\ [][Next]_vars

SpecGen == InitGen /\ [][Next]_vars

----------------------------------------------------------------------------
(* /trip: the requests are served by threads that interleave at the        *)
(* statements that read or write the database and at the call of the model *)
(* runtime; a failed request answers 500                                   *)

eng == <<dna_a, dna_b, op, args, res, budget, gen_log>>

Fail(r, e) == reqs' = [reqs EXCEPT ![r].pc = "failed", ![r].err = e]

Goto(r, pc) == reqs' = [reqs EXCEPT ![r].pc = pc]

\* a request arrives
TripReceive ==
  \E r \in ReqIds, u \in UserIds, x \in TripArgs :
    /\ reqs[r].pc = "idle"
    /\ reqs' = [reqs EXCEPT ![r].pc = "select_user", ![r].user_id = u, ![r].x = x]
    /\ UNCHANGED <<eng, now, users, generations, db_lock>>

\* get_or_create_user: SELECT * FROM users WHERE user_id = ?
GetUserSelect ==
  \E r \in ReqIds :
    /\ reqs[r].pc = "select_user"
    /\ IF UserRows(users, reqs[r].user_id) # {}
       THEN Goto(r, "ollama")
       ELSE Goto(r, "insert_user")
    /\ UNCHANGED <<eng, now, users, generations, db_lock>>

\* get_or_create_user: INSERT INTO users; the statement takes the write
\* lock and fails on a user_id that has a row by now
GetUserInsert ==
  \E r \in ReqIds :
    /\ reqs[r].pc = "insert_user"
    /\ db_lock = 0
    /\ IF UniqueViolation(users, reqs[r].user_id)
       THEN Fail(r, "IntegrityError") /\ UNCHANGED db_lock
       ELSE Goto(r, "commit_user") /\ db_lock' = r
    /\ UNCHANGED <<eng, now, users, generations>>

\* get_or_create_user: conn.commit()
GetUserCommit ==
  \E r \in ReqIds :
    /\ reqs[r].pc = "commit_user"
    /\ users' = users \cup {UserRow(Cardinality(users) + 1, reqs[r].user_id)}
    /\ db_lock' = 0
    /\ Goto(r, "ollama")
    /\ UNCHANGED <<eng, now, generations>>

\* requests.post(OLLAMA_URL, ...), then generate_dna
CallOllama ==
  \E r \in ReqIds, outcome \in OllamaOutcomes :
    /\ reqs[r].pc = "ollama"
    /\ IF outcome = "200"
       THEN LET x == reqs[r].x
            IN  reqs' = [reqs EXCEPT ![r].pc = "save",
                           ![r].dna = trip_generate_dna(x[1], x[2], x[3], x[4])]
       ELSE Fail(r, outcome)
    /\ UNCHANGED <<eng, now, users, generations, db_lock>>

\* INSERT INTO generations and UPDATE users, in one transaction: the first
\* statement takes the write lock
SaveBegin ==
  \E r \in ReqIds :
    /\ reqs[r].pc = "save"
    /\ db_lock = 0
    /\ db_lock' = r
    /\ Goto(r, "commit")
    /\ UNCHANGED <<eng, now, users, generations>>

\* conn.commit(): the generations row and the counters become visible
SaveCommit ==
  \E r \in ReqIds :
    /\ reqs[r].pc = "commit"
    /\ generations' = generations \cup
         {[id |-> Cardinality(generations) + 1, user_id |-> reqs[r].user_id,
           prompt |-> reqs[r].x[1], dna |-> reqs[r].dna]}
    /\ users' = UpdateUsage(users, reqs[r].user_id)
    /\ db_lock' = 0
    /\ Goto(r, "done")
    /\ UNCHANGED <<eng, now>>

\* a statement that waits for the write lock gives up: sqlite3 raises
\* OperationalError (database is locked)
DatabaseLocked ==
  \E r \in ReqIds :
    /\ reqs[r].pc \in {"insert_user", "save"}
    /\ db_lock # 0
    /\ Fail(r, "OperationalError")
    /\ UNCHANGED <<eng, now, users, generations, db_lock>>

InitTrip ==
  /\ dna_a = Str(Rep("a", DnaLen))
  /\ dna_b = Str(Rep("1", DnaLen))
  /\ op = "none"
  /\ args = <<>>
  /\ res = NoResult
  /\ budget = 0
  /\ now = 0
  /\ gen_log = {}
  /\ SrvInit

NextTrip ==
  \/ TripReceive
  \/ GetUserSelect
  \/ GetUserInsert
  \/ GetUserCommit
  \/ CallOllama
  \/ SaveBegin
  \/ SaveCommit
  \/ DatabaseLocked
  \/ Tick

SpecTrip == InitTrip /\ [][NextTrip]_vars

----------------------------------------------------------------------------
(* Claims                                                                  *)

\* the hexadecimal digits 0-9, a-f
HexDigits == {hex_chars[i] : i \in 1..Len(hex_chars)}

AllHex(s) == \A i \in 1..Len(s) : s[i] \in HexDigits

\* C1: validate returns true if and only if its argument is a string of
\* exactly 64 characters, every one of them a hexadecimal digit 0-9, a-f.
C1_ValidateIffHexDigits ==
  op = "validate" =>
    (res.val = TRUE <=>
       (args.dna.t = "str" /\ Len(args.dna.s) = 64 /\ AllHex(args.dna.s)))

\* C2: two calls of generate with identical arguments return identical
\* identifiers, whatever was called and however much time passed in between.
C2_GenerateDeterministic ==
  \A e \in gen_log, f \in gen_log : e.x = f.x => e.dna = f.dna

\* generate was called twice with the same arguments, with another call of
\* the engine and a tick of the clock since the first
C2_Witness ==
  /\ op = "generate"
  /\ now > 0
  /\ \E e \in gen_log, f \in gen_log :
       e.x = f.x /\ e.left = MaxCalls /\ f.left = MaxCalls - 2

\* C3: every identifier generate and generatePersona return passes
\* validate: it has exactly 64 characters, all lowercase hex digits.
C3_GeneratedIsValid ==
  op \in {"generate", "generate_persona"} =>
    /\ res.kind = "ok"
    /\ validate_dna(res.val)
    /\ Len(res.val.s) = 64
    /\ AllHex(res.val.s)

C3_Witness ==
  /\ op = "generate_persona"
  /\ Len(args[2]) = 2
  /\ validate_dna(res.val)

\* C4: for A and B that pass validate and any integer c, remix(A, B, c) is
\* the 64 characters A[0..c'-1] then B[c'..63], with c' = c when
\* 1 <= c <= 63 and c' = 32 otherwise; it is never rejected.
C4_RemixSplices ==
  (op = "remix" /\ validate_dna(dna_a) /\ validate_dna(dna_b)) =>
    LET c == args.crossover_point
        cp == IF 1 <= c /\ c <= 63 THEN c ELSE 32
    IN  /\ res.kind = "ok"
        /\ res.val.t = "str"
        /\ Len(res.val.s) = 64
        /\ \A i \in 1..64 :
             res.val.s[i] = IF i <= cp THEN dna_a.s[i] ELSE dna_b.s[i]

C4_Witness ==
  /\ op = "remix"
  /\ args.crossover_point = 100
  /\ res.kind = "ok"
  /\ res.val.s[32] # res.val.s[33]

\* C5: remix raises the invalid-format error when either input fails
\* validate, and mutate raises it when its input fails validate, whatever
\* the crossover point or the mutation rate; no result is produced.
C5_InvalidInputRaises ==
  /\ (op = "remix" /\ (~validate_dna(dna_a) \/ ~validate_dna(dna_b))) =>
       res = Raise("ValueError: Invalid DNA format")
  /\ (op = "mutate" /\ ~validate_dna(dna_a)) =>
       res = Raise("ValueError: Invalid DNA format")

C5_Witness ==
  /\ op = "remix"
  /\ validate_dna(dna_a)
  /\ ~validate_dna(dna_b)
  /\ res.kind = "raise"

\* C6: for A that passes validate, mutate(A, 0.0) is A; mutate(A, 1.0) has
\* at every position the hex digit drawn for it; and for any rate the result
\* has 64 characters, each the character of A there or a hex digit 0-9a-f.
C6_MutateBounds ==
  (op = "mutate" /\ validate_dna(dna_a)) =>
    /\ res.kind = "ok"
    /\ res.val.t = "str"
    /\ Len(res.val.s) = 64
    /\ args.mutation_rate = 0 => res.val = dna_a
    /\ args.mutation_rate = Micro =>
         \A i \in 1..64 : /\ res.val.s[i] = hex_chars[args.picks[i]]
                          /\ res.val.s[i] \in HexDigits
    /\ \A i \in 1..64 : res.val.s[i] = dna_a.s[i] \/ res.val.s[i] \in HexDigits

C6_Witness ==
  /\ op = "mutate"
  /\ args.mutation_rate = Micro
  /\ res.kind = "ok"
  /\ \A i \in 1..64 : res.val.s[i] # dna_a.s[i]

Abs(n) == IF n < 0 THEN -n ELSE n

\* a float of the model as a whole number of hundredths
Hundredths(x) == x \div (Micro \div 100)

ReportFields ==
  {"similarity_percentage", "differences", "recommended_crossover",
   "patterns_a", "patterns_b", "compatibility"}

\* C7: for A and B that pass validate, compatibility reports the Hamming
\* distance d as differences and (64 - d)/64*100 rounded to 2 decimals as
\* similarity%, so 0 <= similarity% <= 100 and differences =
\* 64 - round(similarity% * 64 / 100); both are the same for (B, A); and
\* compatibility(A, A) reports 100.0, 0 and "High".
C7_CompatibilityMetrics ==
  (op = "compatibility" /\ validate_dna(dna_a) /\ validate_dna(dna_b)) =>
    LET r == res.val
        d == Cardinality({i \in 1..64 : dna_a.s[i] # dna_b.s[i]})
        h == Hundredths(r.similarity_percentage)
        back == analyze_dna_compatibility(dna_b, dna_a).val
    IN  /\ res.kind = "ok"
        /\ r.differences = d
        /\ r.similarity_percentage = h * (Micro \div 100)
        /\ 2 * Abs(h * 64 - (64 - d) * 10000) <= 64
        /\ 0 <= h /\ h <= 10000
        /\ 2 * Abs(h * 64 - (64 - r.differences) * 10000) < 10000
        /\ back.differences = r.differences
        /\ back.similarity_percentage = r.similarity_percentage
        /\ dna_a = dna_b =>
             /\ r.similarity_percentage = 100 * Micro
             /\ r.differences = 0
             /\ r.compatibility = "High"

\* 2 of 64 positions agree: 3.125 lies halfway between two hundredths
C7_Witness ==
  /\ op = "compatibility"
  /\ res.kind = "ok"
  /\ DOMAIN res.val = ReportFields
  /\ res.val.differences = 62

\* C8: the recommended crossover point is 32 when similarity% > 50 and 16
\* otherwise (16 at exactly 50, 32 differing positions); the label is "High"
\* when similarity% > 70, "Medium" when 40 < similarity% <= 70 and "Low"
\* when similarity% <= 40; both come out the same from the rounded reported
\* similarity% and from the unrounded value.
C8_CompatibilityThresholds ==
  (op = "compatibility" /\ validate_dna(dna_a) /\ validate_dna(dna_b)) =>
    LET r == res.val
        d == Cardinality({i \in 1..64 : dna_a.s[i] # dna_b.s[i]})
        h == Hundredths(r.similarity_percentage)
        k == 64 - d
    IN  /\ r.recommended_crossover = (IF h > 5000 THEN 32 ELSE 16)
        /\ r.recommended_crossover = (IF k * 100 > 50 * 64 THEN 32 ELSE 16)
        /\ d = 32 => r.recommended_crossover = 16
        /\ r.compatibility =
             (IF h > 7000 THEN "High" ELSE IF h > 4000 THEN "Medium" ELSE "Low")
        /\ r.compatibility =
             (IF k * 100 > 70 * 64 THEN "High"
              ELSE IF k * 100 > 40 * 64 THEN "Medium"
              ELSE "Low")

C8_Witness ==
  /\ op = "compatibility"
  /\ res.kind = "ok"
  /\ DOMAIN res.val = ReportFields
  /\ res.val.similarity_percentage = 50 * Micro
  /\ res.val.recommended_crossover = 16
  /\ res.val.compatibility = "Medium"

\* C9: compatibility never raises: when either input fails validate it
\* returns the error-shaped result, with no similarity, differences,
\* patterns or label; it returns a full report only when both pass validate.
C9_CompatibilityNeverRaises ==
  op = "compatibility" =>
    /\ res.kind = "ok"
    /\ IF validate_dna(dna_a) /\ validate_dna(dna_b)
       THEN DOMAIN res.val = ReportFields
       ELSE DOMAIN res.val = {"error"} /\ res.val.error = "Invalid DNA format"

C9_Witness ==
  /\ op = "compatibility"
  /\ validate_dna(dna_a)
  /\ dna_b.t = "int"
  /\ res = Ok(ErrorResult)

\* C10: with s the sum of the character codes of d, decode(d) returns
\* temperature (1 + s mod 20)/10, one of 0.1, ..., 2.0, top_p
\* (1 + s mod 9)/10, one of 0.1, ..., 0.9, and the model its first character
\* selects ('0', '1', '2', '3', any other: the default); another call on
\* the same d returns the same three values.
C10_DecodeEstimates ==
  (op = "decode" /\ dna_a.t = "str" /\ Len(dna_a.s) > 0) =>
    LET r == res.val
        s == SumOrd(dna_a.s, 1, Len(dna_a.s))
        first == dna_a.s[1]
    IN  /\ res.kind = "ok"
        /\ r.temperature = (1 + (s % 20)) * (Micro \div 10)
        /\ r.temperature \in {j * (Micro \div 10) : j \in 1..20}
        /\ r.top_p = (1 + (s % 9)) * (Micro \div 10)
        /\ r.top_p \in {j * (Micro \div 10) : j \in 1..9}
        /\ r.model = (IF first = "0" THEN "dolphin-phi:latest"
                      ELSE IF first = "1" THEN "llama2:latest"
                      ELSE IF first = "2" THEN "mistral:latest"
                      ELSE IF first = "3" THEN "gpt-4"
                      ELSE "dolphin-phi:latest")
        /\ \A et \in -FloatErr..FloatErr, ep \in -FloatErr..FloatErr :
             LET again == decode_dna(dna_a, et, ep).val
             IN  /\ again.temperature = r.temperature
                 /\ again.top_p = r.top_p
                 /\ again.model = r.model

\* the float expression came out just under 2.0
C10_Witness ==
  /\ op = "decode"
  /\ res.kind = "ok"
  /\ args.err_t = -FloatErr
  /\ res.val.temperature = 2 * Micro
  /\ Len(dna_a.s) = 64


----------------------------------------------------------------------------
\* C11: decode has no error path: for every string it is given, the strings
\* that fail validate and the empty string among them, it returns the
\* estimated parameters and does not raise
C11_DecodeNeverRaises ==
  (op = "decode" /\ dna_a.t = "str") => res.kind = "ok"

\* C12: the identifiers that pass validate are closed under remix and
\* mutate: whatever the crossover point and the mutation rate, the result of
\* a successful remix or mutate passes validate again
C12_ValidClosedUnderRemixMutate ==
  (op \in {"remix", "mutate"} /\ res.kind = "ok") => validate_dna(res.val)

Served(r) == reqs[r].pc \in {"save", "commit", "done"}

\* C13: two /trip requests with the same prompt, temp, top_p and model are
\* given the same dna, whenever each of them is served
C13_SameParametersSameDna ==
  \A r \in ReqIds, s \in ReqIds :
    (Served(r) /\ Served(s) /\ reqs[r].x = reqs[s].x)
      => reqs[r].dna = reqs[s].dna

GenerationsOf(user_id) == {g \in generations : g.user_id = user_id}

DoneFor(user_id) ==
  {r \in ReqIds : reqs[r].pc = "done" /\ reqs[r].user_id = user_id}

\* C14: whatever the interleaving of the /trip requests, a user_id has at
\* most one users row, the three counters of that row equal the number of
\* generations rows of the user_id, and that number is the number of requests
\* of the user_id that succeeded: a failed request adds no row and no count
C14_UsageMatchesGenerations ==
  \A u \in UserIds :
    /\ Cardinality(UserRows(users, u)) <= 1
    /\ \A row \in UserRows(users, u) :
         /\ row.daily_usage = Cardinality(GenerationsOf(u))
         /\ row.monthly_usage = Cardinality(GenerationsOf(u))
         /\ row.total_usage = Cardinality(GenerationsOf(u))
    /\ UserRows(users, u) = {} => GenerationsOf(u) = {}
    /\ Cardinality(GenerationsOf(u)) = Cardinality(DoneFor(u))

\* two requests of one new user raced to create its row: one lost and
\* failed, the other succeeded and is counted once
C14_Witness ==
  \E r \in ReqIds, s \in ReqIds :
    /\ reqs[r].pc = "done"
    /\ reqs[s].pc = "failed"
    /\ reqs[s].err = "IntegrityError"
    /\ reqs[s].user_id = reqs[r].user_id
    /\ \E row \in UserRows(users, reqs[r].user_id) : row.total_usage = 1

====
